---- MODULE Spec2Model ----
(***************************************************************************)
(* Model of src/src/dmet/dmet_pyscf.py: the DMET fragment construction     *)
(* pipeline (build_fragment_from_geometry, build_h2_fragment) and its      *)
(* helpers (_parse_xyz, _normalise_geometry, _build_mapper).               *)
(*                                                                         *)
(* Conventions.                                                            *)
(*  - Python's None is the empty tuple, a present value x is <<x>>.        *)
(*  - A float is an integer number of 1e-4 units (0.735 is 7350).          *)
(*  - A text line is the sequence of its whitespace-separated tokens, so   *)
(*    a blank line is <<>>; a file is a sequence of lines.                 *)
(*  - Calls into PySCF and Qiskit Nature are steps of the environment:     *)
(*    each may raise, and what it returns is drawn from a small set.       *)
(***************************************************************************)
EXTENDS Integers, Sequences, FiniteSets, TLC

VARIABLES
    pc,            \* position of the running call
    entry,         \* which function the caller invoked
    callerCfg,     \* the DMETConfig object the caller holds (None when not passed)
    callerCfgAtCall, \* its field values when the call was made
    cfg,           \* local cfg of build_fragment_from_geometry
    geometry,      \* local geometry
    trace,         \* the stages of build_fragment_from_geometry entered so far
    hf_energy,     \* local hf_energy
    problem,       \* local problem (result of driver.run())
    electrons,     \* local electrons
    orbitals,      \* local orbitals
    problem_active, \* local problem_active
    fragment_orbitals, \* local fragment_orbitals
    mapper,        \* the mapper object built by _build_mapper
    mapperArgs,    \* arguments of a direct _build_mapper call
    xyzFile,       \* the file given to _parse_xyz
    parsed,        \* what _parse_xyz returned
    fragment,      \* the DMETFragment returned to the caller
    error          \* the exception propagated to the caller

vars == <<pc, entry, callerCfg, callerCfgAtCall, cfg, geometry, trace, hf_energy,
          problem, problem_active, electrons, orbitals, fragment_orbitals, mapper,
          mapperArgs,
          xyzFile, parsed, fragment, error>>

(***************************************************************************)
(* Bounds of the model.                                                    *)
(***************************************************************************)
MaxOrbitals == 2
MaxLines == 4

None == <<>>
Some(x) == <<x>>
IsNone(o) == Len(o) = 0
Val(o) == o[1]

NoError == [kind |-> "none", msg |-> <<>>]
ValueError(m) == [kind |-> "ValueError", msg |-> m]
ExternalError(m) == [kind |-> "ExternalError", msg |-> m]

(***************************************************************************)
(* DMETConfig and its defaults.                                            *)
(***************************************************************************)
DMETConfig ==
    [basis |-> "sto-3g", charge |-> 0, spin |-> 0, distance_unit |-> "angstrom",
     active_electrons |-> None, active_orbitals |-> None,
     fragment_orbitals |-> None, mapper |-> "parity",
     two_qubit_reduction |-> TRUE]

\* cfg = cfg or DMETConfig(): a dataclass instance is always truthy.
CfgOrDefault(c) == IF IsNone(c) THEN DMETConfig ELSE Val(c)

DefaultBondLength == 7350

(***************************************************************************)
(* Text conversions: int(...) and float(...) on the tokens of the model.   *)
(***************************************************************************)
IntTable == ("0" :> 0) @@ ("2" :> 2) @@ ("3" :> 3) @@ ("-1" :> -1)

FloatTable ==
    ("0" :> 0) @@ ("0.0" :> 0) @@ ("0.74" :> 7400) @@ ("1.0" :> 10000) @@
    ("2" :> 20000) @@ ("3" :> 30000) @@ ("-1" :> -10000)

\* int(line) on a stripped line: one token that is an integer literal.
IntParses(line) == Len(line) = 1 /\ line[1] \in DOMAIN IntTable
IntOf(line) == IntTable[line[1]]

FloatParses(tok) == tok \in DOMAIN FloatTable
FloatOf(tok) == FloatTable[tok]

Min(a, b) == IF a < b THEN a ELSE b
Max(a, b) == IF a > b THEN a ELSE b

\* Python's s[a:b] for a >= 0 and any integer b (0-based, negative b counts
\* from the end, out-of-range indices are clamped).
PySlice(s, a, b) ==
    LET n == Len(s)
        lo == Min(a, n)
        hi == IF b < 0 THEN Max(0, n + b) ELSE Min(b, n)
    IN IF lo < hi THEN SubSeq(s, lo + 1, hi) ELSE <<>>

Ok(v) == [ok |-> TRUE, value |-> v, error |-> NoError]
Fail(e) == [ok |-> FALSE, value |-> <<>>, error |-> e]

(***************************************************************************)
(* _parse_xyz                                                              *)
(***************************************************************************)
\* the for loop over atom_lines: the first bad line raises
RECURSIVE ParseAtomLines(_, _)
ParseAtomLines(lines, acc) ==
    IF lines = <<>> THEN Ok(acc)
    ELSE LET parts == Head(lines) IN
         IF Len(parts) < 4
         THEN Fail(ValueError(<<"Failed to parse coordinates from line">> \o parts))
         ELSE IF \E i \in 2..4 : ~FloatParses(parts[i])
         THEN Fail(ValueError(<<"could not convert string to float">>))
         ELSE ParseAtomLines(Tail(lines),
                  Append(acc, <<parts[1], <<FloatOf(parts[2]), FloatOf(parts[3]),
                                            FloatOf(parts[4])>> >>))

\* Variant of ParseXyz: the final comparison with the declared count is missing.
ParseXyzNoCountCheck(file) ==
    LET raw_lines == SelectSeq(file, LAMBDA line : Len(line) > 0) IN
    IF Len(raw_lines) < 2
    THEN Fail(ValueError(<<"is too short to contain geometry information">>))
    ELSE IF ~IntParses(raw_lines[1])
    THEN Fail(ValueError(<<"First line must contain the atom count">>))
    ELSE ParseAtomLines(PySlice(raw_lines, 2, 2 + IntOf(raw_lines[1])), <<>>)

ParseXyz(file) ==
    LET raw_lines == SelectSeq(file, LAMBDA line : Len(line) > 0) IN
    IF Len(raw_lines) < 2
    THEN Fail(ValueError(<<"is too short to contain geometry information">>))
    ELSE IF ~IntParses(raw_lines[1])
    THEN Fail(ValueError(<<"First line must contain the atom count">>))
    ELSE LET expected_atoms == IntOf(raw_lines[1])
             atom_lines == PySlice(raw_lines, 2, 2 + expected_atoms)
             loop == ParseAtomLines(atom_lines, <<>>)
         IN IF ~loop.ok THEN loop
            ELSE IF Len(loop.value) # expected_atoms
            THEN Fail(ValueError(<<"declares a different number of atoms than it contains">>))
            ELSE loop

(***************************************************************************)
(* _normalise_geometry                                                     *)
(***************************************************************************)
RECURSIVE NormaliseAtoms(_, _)
NormaliseAtoms(atoms, acc) ==
    IF atoms = <<>> THEN Ok(acc)
    ELSE LET symbol == Head(atoms)[1]
             coord_tuple == Head(atoms)[2]
         IN IF Len(coord_tuple) # 3
            THEN Fail(ValueError(<<"must have three components", symbol>>))
            ELSE NormaliseAtoms(Tail(atoms), Append(acc, <<symbol, coord_tuple>>))

NormaliseGeometry(g) == NormaliseAtoms(g, <<>>)

(***************************************************************************)
(* _build_mapper                                                           *)
(***************************************************************************)
\* str.lower() on the scheme names of the model
LowerTable ==
    ("parity" :> "parity") @@ ("Parity" :> "parity") @@ ("jw" :> "jw") @@
    ("JW" :> "jw") @@ ("jordan-wigner" :> "jordan-wigner") @@
    ("Jordan_Wigner" :> "jordan_wigner") @@ ("bravyi-kitaev" :> "bravyi-kitaev") @@
    ("" :> "")

Lower(name) == LowerTable[name]

\* Variant of BuildMapper: the particle counts are demanded before the scheme
\* is looked at.
BuildMapperCountsFirst(name, num_particles, two_qubit_reduction) ==
    LET lowered == Lower(name) IN
    IF two_qubit_reduction /\ IsNone(num_particles)
    THEN Fail(ValueError(<<"Two-qubit reduction requires particle counts.">>))
    ELSE IF lowered = "parity"
    THEN Ok(IF two_qubit_reduction THEN "ParityMapper(num_particles)"
            ELSE "ParityMapper()")
    ELSE IF lowered \in {"jw", "jordan-wigner", "jordan_wigner"}
    THEN Ok("JordanWignerMapper()")
    ELSE Fail(ValueError(<<"Unsupported mapper", name>>))

BuildMapper(name, num_particles, two_qubit_reduction) ==
    LET lowered == Lower(name) IN
    IF lowered = "parity"
    THEN IF two_qubit_reduction
         THEN IF IsNone(num_particles)
              THEN Fail(ValueError(<<"Two-qubit reduction requires particle counts.">>))
              ELSE Ok("ParityMapper(num_particles)")
         ELSE Ok("ParityMapper()")
    ELSE IF lowered \in {"jw", "jordan-wigner", "jordan_wigner"}
    THEN Ok("JordanWignerMapper()")
    ELSE Fail(ValueError(<<"Unsupported mapper", name>>))

(***************************************************************************)
(* build_h2_fragment: the geometry and the defaults it fills in            *)
(***************************************************************************)
H2Geometry(bond_length) ==
    << <<"H", <<0, 0, -(bond_length \div 2)>> >>,
       <<"H", <<0, 0, bond_length \div 2>> >> >>

\* Variant of FillH2Defaults: a falsy value (0, an empty sequence) is taken
\* for unset and overwritten.
FillH2DefaultsFalsy(c) ==
    [c EXCEPT
       !.active_electrons =
           IF IsNone(@) \/ Val(@) = 0 THEN Some(2) ELSE @,
       !.active_orbitals =
           IF IsNone(@) \/ Val(@) = 0 THEN Some(2) ELSE @,
       !.fragment_orbitals =
           IF IsNone(@) \/ Len(Val(@)) = 0 THEN Some(<<0, 1>>) ELSE @]

FillH2Defaults(c) ==
    LET c1 == IF IsNone(c.active_electrons)
              THEN [c EXCEPT !.active_electrons = Some(2)] ELSE c
        c2 == IF IsNone(c1.active_orbitals)
              THEN [c1 EXCEPT !.active_orbitals = Some(2)] ELSE c1
    IN IF IsNone(c2.fragment_orbitals)
       THEN [c2 EXCEPT !.fragment_orbitals = Some(<<0, 1>>)] ELSE c2

(***************************************************************************)
(* build_fragment_from_geometry: the expressions of its stages             *)
(***************************************************************************)
\* float(mf.kernel()): kernel() returns the total energy of its last
\* iteration whether or not the iteration converged (it records that in
\* mf.converged, which is not read); a numerical fault raises.
RunRestrictedHF(scf) ==
    IF scf = "fault" THEN Fail(ExternalError(<<"scf">>))
    ELSE IF scf = "converged" THEN Ok("converged_energy")
    ELSE Ok("unconverged_energy")

SumParticles(p) == p.num_particles[1] + p.num_particles[2]

InferSpatialOrbitals(p) == p.num_spatial_orbitals

\* Variant of Electrons: only None counts as unset, an explicit 0 is kept.
ElectronsUnsetIsNone(c, p) ==
    IF ~IsNone(c.active_electrons)
    THEN Val(c.active_electrons) ELSE SumParticles(p)

\* cfg.active_electrons or sum(problem.num_particles)
Electrons(c, p) ==
    IF ~IsNone(c.active_electrons) /\ Val(c.active_electrons) # 0
    THEN Val(c.active_electrons) ELSE SumParticles(p)

\* cfg.active_orbitals or _infer_spatial_orbitals(problem)
Orbitals(c, p) ==
    IF ~IsNone(c.active_orbitals) /\ Val(c.active_orbitals) # 0
    THEN Val(c.active_orbitals) ELSE InferSpatialOrbitals(p)

\* ActiveSpaceTransformer(num_electrons, num_spatial_orbitals).transform(problem)
\* raises for a negative count, for more active electrons than the problem
\* has, for an odd number of inactive electrons and for more orbitals than
\* the problem has above the inactive ones.
TransformerRejects(num_electrons, num_spatial_orbitals, p) ==
    LET nelec_inactive == SumParticles(p) - num_electrons IN
    \/ num_electrons < 0
    \/ num_spatial_orbitals < 0
    \/ nelec_inactive < 0
    \/ nelec_inactive % 2 # 0
    \/ (nelec_inactive \div 2) + num_spatial_orbitals > p.num_spatial_orbitals

\* the active problem: each spin loses the inactive pairs
Transform(num_electrons, num_spatial_orbitals, p) ==
    LET inactive_pairs == (SumParticles(p) - num_electrons) \div 2 IN
    [num_particles |-> <<p.num_particles[1] - inactive_pairs,
                         p.num_particles[2] - inactive_pairs>>,
     num_spatial_orbitals |-> num_spatial_orbitals]

Range(n) == [i \in 1..n |-> i - 1]

\* tuple(cfg.fragment_orbitals or range(orbitals))
FragmentOrbitals(c, n) ==
    IF ~IsNone(c.fragment_orbitals) /\ Len(Val(c.fragment_orbitals)) # 0
    THEN Val(c.fragment_orbitals) ELSE Range(n)

\* Variant of NextPc: the fragment-orbital indices are resolved before the
\* active-space transform.
NextPcReordered(stage) ==
    CASE stage = "normalise" -> "reference_energy"
      [] stage = "reference_energy" -> "driver_run"
      [] stage = "driver_run" -> "fragment_orbitals"
      [] stage = "fragment_orbitals" -> "active_space"
      [] stage = "active_space" -> "encode"
      [] stage = "encode" -> "construct"
      [] stage = "construct" -> "returned"

\* the statement order of the function body
NextPc(stage) ==
    CASE stage = "normalise" -> "reference_energy"
      [] stage = "reference_energy" -> "driver_run"
      [] stage = "driver_run" -> "active_space"
      [] stage = "active_space" -> "fragment_orbitals"
      [] stage = "fragment_orbitals" -> "encode"
      [] stage = "encode" -> "construct"
      [] stage = "construct" -> "returned"

(***************************************************************************)
(* The inputs the callers of the model choose from.                        *)
(***************************************************************************)
OptInts(lo, hi) == {None} \cup {Some(i) : i \in lo..hi}

MapperNames == DOMAIN LowerTable

Configs ==
    {[DMETConfig EXCEPT !.active_electrons = ae, !.active_orbitals = ao,
                        !.fragment_orbitals = fo, !.mapper = m,
                        !.two_qubit_reduction = t] :
        ae \in OptInts(-1, 2 * MaxOrbitals + 1),
        ao \in OptInts(-1, MaxOrbitals + 1),
        fo \in {None, Some(<<>>), Some(<<1, 0>>)},
        m \in {"parity", "JW", "bravyi-kitaev"},
        t \in BOOLEAN}
    \cup
    {[DMETConfig EXCEPT !.basis = b, !.charge = q, !.spin = sp,
                        !.distance_unit = u, !.active_electrons = ae,
                        !.fragment_orbitals = fo] :
        b \in {"sto-3g", "6-31g"}, q \in {0, 1}, sp \in {0, 1},
        u \in {"angstrom", "bohr"}, ae \in {None, Some(0), Some(2)},
        fo \in {None, Some(<<0>>)}}

OptConfigs == {None} \cup {Some(c) : c \in Configs}

Geometries ==
    { << <<"H", <<0, 0, 0>> >>, <<"H", <<0, 0, 7400>> >> >>,
      << <<"He", <<0, 0, 0>> >> >>,
      << <<"H", <<0, 0, 0>> >>, <<"H", <<0, 7400>> >> >> }

BondLengths == {DefaultBondLength, 7400}

\* what driver.run() can return: a restricted problem with at least one
\* electron, alpha >= beta, and no more electrons per spin than orbitals
Problems ==
    {[num_particles |-> <<a, b>>, num_spatial_orbitals |-> n] :
        a \in 1..MaxOrbitals, b \in 0..MaxOrbitals, n \in 1..MaxOrbitals}

DriverResults == {p \in Problems : /\ p.num_particles[2] <= p.num_particles[1]
                                   /\ p.num_particles[1] <= p.num_spatial_orbitals}

Lines ==
    { <<>>, <<"2">>, <<"3">>, <<"-1">>, <<"water", "dimer">>,
      <<"H", "0", "0", "0">>, <<"H", "0.0", "0", "0.74">>,
      <<"O", "1.0", "0", "0", "6">>, <<"H", "0", "0">>, <<"H", "x", "0", "0">> }

Files == UNION {[1..n -> Lines] : n \in 0..MaxLines}

(***************************************************************************)
(* Initial state: no call has been made.                                   *)
(***************************************************************************)
Init ==
    /\ pc = "idle"
    /\ entry = "none"
    /\ callerCfg = None
    /\ callerCfgAtCall = None
    /\ cfg = DMETConfig
    /\ geometry = <<>>
    /\ trace = <<>>
    /\ hf_energy = "unset"
    /\ problem = None
    /\ problem_active = None
    /\ electrons = 0
    /\ orbitals = 0
    /\ fragment_orbitals = <<>>
    /\ mapper = "unset"
    /\ mapperArgs = None
    /\ xyzFile = <<>>
    /\ parsed = None
    /\ fragment = None
    /\ error = NoError

locals == <<hf_energy, problem, problem_active, electrons, orbitals,
            fragment_orbitals, mapper>>
standalone == <<mapperArgs, xyzFile, parsed>>
caller == <<entry, callerCfg, callerCfgAtCall>>

(***************************************************************************)
(* Entry points.                                                           *)
(***************************************************************************)
CallBuildFragmentFromGeometry ==
    /\ pc = "idle"
    /\ \E g \in Geometries, c \in OptConfigs :
        /\ entry' = "build_fragment_from_geometry"
        /\ callerCfg' = c
        /\ callerCfgAtCall' = c
        /\ cfg' = CfgOrDefault(c)
        /\ geometry' = g
    /\ pc' = "normalise"
    /\ UNCHANGED <<trace, locals, standalone, fragment, error>>

CallBuildH2Fragment ==
    /\ pc = "idle"
    /\ \E bond_length \in BondLengths, c \in OptConfigs :
        /\ entry' = "build_h2_fragment"
        /\ callerCfg' = c
        /\ callerCfgAtCall' = c
        /\ cfg' = FillH2Defaults(CfgOrDefault(c))
        /\ geometry' = H2Geometry(bond_length)
    /\ pc' = "normalise"
    /\ UNCHANGED <<trace, locals, standalone, fragment, error>>

CallParseXyz ==
    /\ pc = "idle"
    /\ \E f \in Files :
        /\ xyzFile' = f
        /\ LET r == ParseXyz(f) IN
           IF r.ok
           THEN parsed' = Some(r.value) /\ pc' = "parsed" /\ UNCHANGED error
           ELSE parsed' = None /\ pc' = "raised" /\ error' = r.error
    /\ entry' = "_parse_xyz"
    /\ UNCHANGED <<callerCfg, callerCfgAtCall, cfg, geometry, trace, locals,
                   mapperArgs, fragment>>

\* _normalise_geometry applied to what _parse_xyz returned
NormaliseParsed ==
    /\ pc = "parsed"
    /\ LET r == NormaliseGeometry(Val(parsed)) IN
       IF r.ok
       THEN geometry' = r.value /\ pc' = "returned" /\ UNCHANGED error
       ELSE pc' = "raised" /\ error' = r.error /\ UNCHANGED geometry
    /\ UNCHANGED <<caller, cfg, trace, locals, standalone, fragment>>

CallBuildMapper ==
    /\ pc = "idle"
    /\ \E name \in MapperNames, np \in {None, Some(<<1, 1>>)}, t \in BOOLEAN :
        /\ mapperArgs' = Some([name |-> name, num_particles |-> np,
                               two_qubit_reduction |-> t])
        /\ LET r == BuildMapper(name, np, t) IN
           IF r.ok
           THEN mapper' = r.value /\ pc' = "returned" /\ UNCHANGED error
           ELSE mapper' = mapper /\ pc' = "raised" /\ error' = r.error
    /\ entry' = "_build_mapper"
    /\ UNCHANGED <<callerCfg, callerCfgAtCall, cfg, geometry, trace, hf_energy,
                   problem, problem_active, electrons, orbitals,
                   fragment_orbitals, xyzFile, parsed, fragment>>

(***************************************************************************)
(* The stages of build_fragment_from_geometry, one action each.  An        *)
(* exception leaves the function at once: pc becomes "raised", which       *)
(* enables nothing.                                                        *)
(***************************************************************************)
Raise(e) == pc' = "raised" /\ error' = e

\* geometry = _normalise_geometry(geometry)
StageNormalise ==
    /\ pc = "normalise"
    /\ trace' = Append(trace, "normalise")
    /\ LET r == NormaliseGeometry(geometry) IN
       IF r.ok
       THEN geometry' = r.value /\ pc' = NextPc("normalise") /\ UNCHANGED error
       ELSE Raise(r.error) /\ UNCHANGED geometry
    /\ UNCHANGED <<caller, cfg, locals, standalone, fragment>>

\* mol = _build_pyscf_molecule(geometry, cfg); hf_energy = _run_restricted_hf(mol)
StageReferenceEnergy ==
    /\ pc = "reference_energy"
    /\ trace' = Append(trace, "reference_energy")
    /\ \E built \in BOOLEAN, scf \in {"converged", "not_converged", "fault"} :
        IF ~built
        THEN Raise(ExternalError(<<"mol.build">>)) /\ UNCHANGED hf_energy
        ELSE LET r == RunRestrictedHF(scf) IN
             IF r.ok
             THEN hf_energy' = r.value /\ pc' = NextPc("reference_energy")
                  /\ UNCHANGED error
             ELSE Raise(r.error) /\ UNCHANGED hf_energy
    /\ UNCHANGED <<caller, cfg, geometry, problem, problem_active, electrons,
                   orbitals, fragment_orbitals, mapper, standalone, fragment>>

\* driver = PySCFDriver(...); problem = driver.run()
StageDriverRun ==
    /\ pc = "driver_run"
    /\ trace' = Append(trace, "driver_run")
    /\ \/ \E p \in DriverResults :
            /\ problem' = Some(p)
            /\ pc' = NextPc("driver_run")
            /\ UNCHANGED error
       \/ Raise(ExternalError(<<"driver.run">>)) /\ UNCHANGED problem
    /\ UNCHANGED <<caller, cfg, geometry, hf_energy, problem_active, electrons,
                   orbitals, fragment_orbitals, mapper, standalone, fragment>>

\* electrons = ...; orbitals = ...; problem_active = transformer.transform(problem)
StageActiveSpace ==
    /\ pc = "active_space"
    /\ trace' = Append(trace, "active_space")
    /\ electrons' = Electrons(cfg, Val(problem))
    /\ orbitals' = Orbitals(cfg, Val(problem))
    /\ \E fault \in BOOLEAN :
        IF fault \/ TransformerRejects(electrons', orbitals', Val(problem))
        THEN Raise(ExternalError(<<"transformer.transform">>))
             /\ UNCHANGED problem_active
        ELSE /\ problem_active' = Some(Transform(electrons', orbitals', Val(problem)))
             /\ pc' = NextPc("active_space")
             /\ UNCHANGED error
    /\ UNCHANGED <<caller, cfg, geometry, hf_energy, problem, fragment_orbitals,
                   mapper, standalone, fragment>>

\* fragment_orbitals = tuple(cfg.fragment_orbitals or range(orbitals))
StageFragmentOrbitals ==
    /\ pc = "fragment_orbitals"
    /\ trace' = Append(trace, "fragment_orbitals")
    /\ fragment_orbitals' = FragmentOrbitals(cfg, orbitals)
    /\ pc' = NextPc("fragment_orbitals")
    /\ UNCHANGED <<caller, cfg, geometry, hf_energy, problem, problem_active,
                   electrons, orbitals, mapper, standalone, fragment, error>>

\* fermionic_op = ...second_q_op(); mapper = _build_mapper(...); qubit_op = mapper.map(...)
StageEncode ==
    /\ pc = "encode"
    /\ trace' = Append(trace, "encode")
    /\ LET r == BuildMapper(cfg.mapper, Some(Val(problem_active).num_particles),
                            cfg.two_qubit_reduction) IN
       IF ~r.ok
       THEN Raise(r.error) /\ UNCHANGED mapper
       ELSE \/ /\ mapper' = r.value
               /\ pc' = NextPc("encode")
               /\ UNCHANGED error
            \/ Raise(ExternalError(<<"mapper.map">>)) /\ mapper' = r.value
    /\ UNCHANGED <<caller, cfg, geometry, hf_energy, problem, problem_active,
                   electrons, orbitals, fragment_orbitals, standalone, fragment>>

\* return DMETFragment(...)
StageConstruct ==
    /\ pc = "construct"
    /\ trace' = Append(trace, "construct")
    /\ fragment' = Some([geometry |-> geometry,
                         basis |-> cfg.basis,
                         active_electrons |-> electrons,
                         active_orbitals |-> orbitals,
                         fragment_orbitals |-> fragment_orbitals,
                         hartree_fock_energy |-> hf_energy,
                         fermionic_hamiltonian |->
                             [register_length |->
                                 2 * Val(problem_active).num_spatial_orbitals],
                         qubit_hamiltonian |->
                             [mapper |-> mapper,
                              register_length |->
                                 2 * Val(problem_active).num_spatial_orbitals]])
    /\ pc' = NextPc("construct")
    /\ UNCHANGED <<caller, cfg, geometry, locals, standalone, error>>

Next ==
    \/ CallBuildFragmentFromGeometry
    \/ CallBuildH2Fragment
    \/ CallParseXyz
    \/ NormaliseParsed
    \/ CallBuildMapper
    \/ StageNormalise
    \/ StageReferenceEnergy
    \/ StageDriverRun
    \/ StageActiveSpace
    \/ StageFragmentOrbitals
    \/ StageEncode
    \/ StageConstruct

Spec == Init /\ [][Next]_vars

(***************************************************************************)
(* Properties.                                                             *)
(***************************************************************************)
InPipeline == entry \in {"build_fragment_from_geometry", "build_h2_fragment"}
Returned == ~IsNone(fragment)

StageOrder ==
    <<"normalise", "reference_energy", "driver_run", "active_space",
      "fragment_orbitals", "encode", "construct">>

IsPrefix(s, t) == Len(s) <= Len(t) /\ s = SubSeq(t, 1, Len(s))

ParityNames == {"parity", "Parity"}
JordanWignerNames == {"jw", "JW", "jordan-wigner", "Jordan_Wigner"}

C2_BadExplicitCountsRejected ==
    Returned =>
        /\ ~IsNone(cfg.active_electrons) =>
              /\ Val(cfg.active_electrons) > 0
              /\ Val(cfg.active_electrons) <= SumParticles(Val(problem))
        /\ ~IsNone(cfg.active_orbitals) =>
              /\ Val(cfg.active_orbitals) > 0
              /\ Val(cfg.active_orbitals) <= Val(problem).num_spatial_orbitals

\* C3: the stages run in the fixed order, a fragment is returned only after
\* all of them succeeded, and once a stage has raised no later stage runs and
\* no fragment is returned.
C3_FixedOrderFailClosed ==
    /\ [](/\ IsPrefix(trace, StageOrder)
          /\ Returned => (trace = StageOrder /\ error.kind = "none")
          /\ (InPipeline /\ pc = "raised") => (~Returned /\ error.kind # "none"))
    /\ [][(InPipeline /\ pc = "raised") => (trace' = trace /\ fragment' = fragment)]_vars

\* C3 witness: the active-space stage raised after three stages succeeded.
C3_Witness ==
    /\ pc = "raised"
    /\ trace = SubSeq(StageOrder, 1, 4)
    /\ ~Returned

\* C4: no returned fragment carries a hartree_fock_energy that comes from a
\* self-consistent-field run that did not converge.
C4_NoEnergyFromUnconvergedScf ==
    Returned => Val(fragment).hartree_fock_energy # "unconverged_energy"

\* C5: _parse_xyz raises when the file has fewer than 2 non-empty lines, when
\* its first non-empty line is not an integer, when a line among the declared
\* records has fewer than 4 fields, and when the number of records differs
\* from the declared count N; whenever it returns, it returns exactly N atoms.
C5_ParseXyzErrors ==
    (entry = "_parse_xyz") =>
        LET nonempty == SelectSeq(xyzFile, LAMBDA l : l # <<>>)
            isInt == nonempty[1] \in {<<"0">>, <<"2">>, <<"3">>, <<"-1">>}
            N == IntTable[nonempty[1][1]]
            raised == pc = "raised" /\ IsNone(parsed)
        IN /\ Len(nonempty) < 2 => raised
           /\ (Len(nonempty) >= 2 /\ ~isInt) => raised
           /\ (Len(nonempty) >= 2 /\ isInt) =>
                /\ (\E i \in 3..(2 + N) : i <= Len(nonempty) /\ Len(nonempty[i]) < 4)
                       => raised
                /\ (N < 0 \/ Len(nonempty) - 2 < N) => raised
                /\ ~IsNone(parsed) => Len(Val(parsed)) = N

\* C5 witness: a file declaring 3 atoms with only 2 data lines was rejected.
C5_Witness ==
    /\ entry = "_parse_xyz"
    /\ pc = "raised"
    /\ xyzFile = << <<"3">>, <<"water", "dimer">>, <<"H", "0", "0", "0">>,
                    <<"H", "0.0", "0", "0.74">> >>

\* C6: for every file made of a count line N, a comment line and N records
\* "symbol x y z", _normalise_geometry(_parse_xyz(file)) returns the N records
\* in the file's order.
C6_RoundTrip ==
    LET N == Len(xyzFile) - 2
        records == SubSeq(xyzFile, 3, Len(xyzFile))
        wellFormed ==
            /\ Len(xyzFile) >= 2
            /\ IntParses(xyzFile[1]) /\ IntOf(xyzFile[1]) = N
            /\ \A i \in 1..N :
                 /\ Len(records[i]) = 4
                 /\ \A k \in 2..4 : FloatParses(records[i][k])
    IN (entry = "_parse_xyz" /\ wellFormed) =>
          /\ pc \in {"parsed", "returned"}
          /\ pc = "returned" =>
                geometry = [i \in 1..N |->
                              <<records[i][1],
                                <<FloatOf(records[i][2]), FloatOf(records[i][3]),
                                  FloatOf(records[i][4])>> >>]

\* C7: _build_mapper fails exactly when the scheme name is neither parity nor
\* a Jordan-Wigner name (and then the message names the value), or when the
\* scheme is parity, two_qubit_reduction is requested and no particle counts
\* are given.
C7_BuildMapperFailsExactly ==
    (entry = "_build_mapper") =>
        LET a == Val(mapperArgs)
            unsupported == a.name \notin (ParityNames \cup JordanWignerNames)
            noCounts == /\ a.name \in ParityNames
                        /\ a.two_qubit_reduction
                        /\ IsNone(a.num_particles)
        IN /\ (pc = "raised") <=> (unsupported \/ noCounts)
           /\ (pc = "returned") <=> ~(unsupported \/ noCounts)
           /\ unsupported => (Len(error.msg) = 2 /\ error.msg[2] = a.name)
           /\ (pc = "returned" /\ a.name \in JordanWignerNames)
                 => mapper = "JordanWignerMapper()"

\* C7 witness: Jordan-Wigner was built with reduction requested and no
\* particle counts.
C7_Witness ==
    /\ entry = "_build_mapper"
    /\ pc = "returned"
    /\ Val(mapperArgs).name = "JW"
    /\ Val(mapperArgs).two_qubit_reduction
    /\ IsNone(Val(mapperArgs).num_particles)

\* C8: the fragment_orbitals of the returned fragment is the sequence the
\* configuration supplies (an empty one included), and 0..active_orbitals-1
\* only when the configuration leaves it unset.
C8_FragmentOrbitalsCarriedThrough ==
    Returned =>
        Val(fragment).fragment_orbitals =
            IF IsNone(cfg.fragment_orbitals)
            THEN [i \in 1..Val(fragment).active_orbitals |-> i - 1]
            ELSE Val(cfg.fragment_orbitals)

\* C9: build_h2_fragment hands on active_electrons=2, active_orbitals=2 and
\* fragment_orbitals=(0,1) exactly for the fields the caller left None, every
\* other value as the caller gave it, and leaves the caller's object as it was.
C9_H2DefaultsFillOnlyUnset ==
    (entry = "build_h2_fragment") =>
        LET given == IF IsNone(callerCfgAtCall) THEN DMETConfig
                     ELSE Val(callerCfgAtCall)
        IN /\ cfg.active_electrons =
                 IF given.active_electrons = None THEN Some(2)
                 ELSE given.active_electrons
           /\ cfg.active_orbitals =
                 IF given.active_orbitals = None THEN Some(2)
                 ELSE given.active_orbitals
           /\ cfg.fragment_orbitals =
                 IF given.fragment_orbitals = None THEN Some(<<0, 1>>)
                 ELSE given.fragment_orbitals
           /\ cfg.basis = given.basis
           /\ cfg.charge = given.charge
           /\ cfg.spin = given.spin
           /\ cfg.distance_unit = given.distance_unit
           /\ cfg.mapper = given.mapper
           /\ cfg.two_qubit_reduction = given.two_qubit_reduction
           /\ callerCfg = callerCfgAtCall

\* C9 witness: the caller set active_electrons to 0 and an empty
\* fragment_orbitals and left active_orbitals unset, and the call went on.
C9_Witness ==
    /\ entry = "build_h2_fragment"
    /\ ~IsNone(callerCfg)
    /\ Val(callerCfg).active_electrons = Some(0)
    /\ Val(callerCfg).fragment_orbitals = Some(<<>>)
    /\ Val(callerCfg).active_orbitals = None
    /\ cfg.active_orbitals = Some(2)
    /\ Len(trace) >= 1

\* C10: an unsupported encoding scheme name is detected before the
\* restricted-HF solve, the driver run and the active-space transform start.
C10_UnsupportedMapperFailsFast ==
    (InPipeline /\ cfg.mapper \notin (ParityNames \cup JordanWignerNames)) =>
        /\ hf_energy = "unset"
        /\ IsNone(problem)
        /\ IsNone(problem_active)

====
